---------------------------- MODULE Spec2Model ----------------------------
(***************************************************************************)
(* A model of know-lang: the summarize-and-index pipeline                  *)
(* (CodeSummarizer, in its knowlang and its older know_lang_bot version),  *)
(* the chat surface (CodeQAChatInterface.stream_response consuming         *)
(* stream_chat_progress) and the evaluation harness (ChatBotEvaluator).    *)
(*                                                                         *)
(* The three components share no state.  Each has its own specification    *)
(* (SumSpec, ChatSpec, EvalSpec / EvalFairSpec); the variables of the      *)
(* other components stay at their initial values.                          *)
(***************************************************************************)
EXTENDS Integers, Sequences, FiniteSets, TLC

VARIABLES
    \* ---- CodeSummarizer ----
    impl,             \* which CodeSummarizer: "knowlang" or "know_lang_bot"
    provider,         \* config: the embedding provider name
    chunks,           \* the list given to process_chunks
    idx,              \* position of the for loop in chunks (1-based)
    spc,              \* where process_chunks / process_and_store_chunk stands
    summary,          \* local of process_and_store_chunk
    vector_store,     \* the collection: a list of stored records
    errored,          \* positions of chunks whose processing raised, this run
    written,          \* positions of chunks written to the store, in the
                      \* order of the writes, this run
    \* ---- CodeQAChatInterface.stream_response ----
    history,          \* the list of ChatMessage, mutated in place
    shown,            \* the history as of the last yield
    cpc,              \* where stream_response stands
    current_progress, \* local: the progress ChatMessage, or None
    code_blocks_added,\* local
    result,           \* the item the async for holds
    items,            \* the items stream_chat_progress produced for this query
    gpc,              \* where stream_chat_progress stands
    qstart,           \* position in history of the query's user message
    queries,          \* number of stream_response calls so far
    \* ---- ChatBotEvaluator.evaluate_batch ----
    cases,            \* the cases given to evaluate_batch
    max_concurrent,   \* its argument
    semaphore,        \* value of the asyncio.Semaphore
    tpc,              \* where each eval_single_with_limit task stands
    task_result,      \* what each task returned or raised
    batch,            \* where evaluate_batch stands
    batch_result      \* what evaluate_batch returned

sum_vars  == <<impl, provider, chunks, idx, spc, summary, vector_store, errored,
               written>>
chat_vars == <<history, shown, cpc, current_progress, code_blocks_added,
               result, items, gpc, qstart, queries>>
eval_vars == <<cases, max_concurrent, semaphore, tpc, task_result, batch,
               batch_result>>
vars == <<sum_vars, chat_vars, eval_vars>>

\* Python's None: where a text is expected, and where an object is.
None == "None"
Nothing == [none |-> TRUE]

(***************************************************************************)
(* Bounds of the model.                                                    *)
(***************************************************************************)
MaxChunks == 3      \* longest list given to process_chunks
MaxQueries == 2     \* stream_response calls on one history
MaxCases == 3       \* longest case list given to evaluate_batch
MaxConcurrent == 2  \* largest max_concurrent tried

RECURSIVE SeqsUpTo(_, _)
SeqsUpTo(S, n) ==
    IF n = 0 THEN {<<>>}
    ELSE LET shorter == SeqsUpTo(S, n - 1)
         IN  shorter \cup {Append(s, x) : s \in shorter, x \in S}

(***************************************************************************)
(*                            CodeSummarizer                               *)
(***************************************************************************)
Impls == {"knowlang", "know_lang_bot"}
Providers == {"ollama", "unsupported"}

\* CodeChunk: the fields the summarizer reads.
ChunkSet ==
    { [file_path |-> "a.py", start_line |-> 1,  end_line |-> 10,
       content |-> "def f(): pass"],
      [file_path |-> "b.py", start_line |-> 1,  end_line |-> 10,
       content |-> "def g(): pass"] }

\* What the summarizing agent may answer (result.data).
AgentOutputs == {"stub summary", "other summary"}

\* A slip in the id: the end line left out.
chunk_id_without_end(chunk) ==
    chunk.file_path \o ":" \o ToString(chunk.start_line)

\* know_lang_bot: chunk_id = f"{file_path}:{start_line}-{end_line}"
chunk_id(chunk) ==
    chunk.file_path \o ":" \o ToString(chunk.start_line) \o "-"
        \o ToString(chunk.end_line)

\* knowlang: chunk.location.to_single_line(); the spec gives the id's form.
to_single_line(chunk) ==
    chunk.file_path \o ":" \o ToString(chunk.start_line) \o "-"
        \o ToString(chunk.end_line)

\* know_lang_bot: ChunkMetadata(file_path=..., start_line=..., end_line=...)
ChunkMetadata(chunk) ==
    [file_path |-> chunk.file_path, start_line |-> chunk.start_line,
     end_line |-> chunk.end_line]

\* knowlang: DatabaseChunkMetadata.from_code_chunk(chunk), the projection of
\* the chunk the spec describes.
from_code_chunk(chunk) ==
    [file_path |-> chunk.file_path, start_line |-> chunk.start_line,
     end_line |-> chunk.end_line]

\* knowlang: format_code_summary(chunk.content, result.data).  Its layout is
\* not part of the repository's sources here; it keeps both parts.
format_code_summary(code, text) == "CODE:" \o code \o " SUMMARY:" \o text

\* What summarize_chunk returns when the agent answers `data`.
summarize_result(i, chunk, data) ==
    IF i = "knowlang" THEN format_code_summary(chunk.content, data) ELSE data

\* The embedding provider applied to a text (external; a tag on the text).
embed(text) == <<"embedding", text>>

\* A slip: an id made from the chunk and the text of its summary, which is
\* not the same from one call to the next.
stored_record_content_id(i, chunk, s) ==
    [id        |-> chunk_id(chunk) \o "#" \o s,
     document  |-> s,
     embedding |-> embed(s),
     metadata  |-> ChunkMetadata(chunk)]

\* The arguments process_and_store_chunk hands to the store, as one record.
stored_record(i, chunk, s) ==
    [id        |-> IF i = "knowlang" THEN to_single_line(chunk)
                   ELSE chunk_id(chunk),
     document  |-> s,
     embedding |-> embed(s),
     metadata  |-> IF i = "knowlang" THEN from_code_chunk(chunk)
                   ELSE ChunkMetadata(chunk)]

\* The vector store's add: upsert by id (the contract the spec assumes).
add_documents(st, rec) ==
    IF \E k \in 1..Len(st) : st[k].id = rec.id
    THEN LET k == CHOOSE j \in 1..Len(st) : st[j].id = rec.id
         IN  [st EXCEPT ![k] = rec]
    ELSE Append(st, rec)

(***************************************************************************)
(* The other components at rest.                                           *)
(***************************************************************************)
ChatIdle ==
    /\ history = <<>> /\ shown = <<>> /\ cpc = "idle"
    /\ current_progress = Nothing /\ code_blocks_added = FALSE
    /\ result = Nothing /\ items = <<>> /\ gpc = "idle" /\ qstart = 0
    /\ queries = 0

EvalIdle ==
    /\ cases = <<>> /\ max_concurrent = 0 /\ semaphore = 0
    /\ tpc = <<>> /\ task_result = <<>> /\ batch = "idle"
    /\ batch_result = Nothing

SumInit ==
    /\ ChatIdle
    /\ EvalIdle
    /\ impl \in Impls
    /\ provider \in Providers
    /\ chunks = <<>>
    /\ idx = 0
    /\ spc = "idle"
    /\ summary = None
    /\ vector_store = <<>>
    /\ errored = {}
    /\ written = <<>>

\* process_chunks(chunks) is called (again, once an earlier call has ended).
process_chunks(cs) ==
    /\ spc \in {"idle", "returned", "raised"}
    /\ chunks' = cs
    /\ idx' = 1
    /\ spc' = "loop"
    /\ summary' = None
    /\ errored' = {}
    /\ written' = <<>>
    /\ UNCHANGED <<impl, provider, vector_store, chat_vars, eval_vars>>

\* A slip: on an exception a record without a summary is stored for the
\* chunk.
chunk_raises_stores_stub ==
    /\ errored' = errored \cup {idx}
    /\ summary' = None
    /\ vector_store' =
          add_documents(vector_store, stored_record(impl, chunks[idx], ""))
    /\ IF impl = "knowlang"
       THEN /\ idx' = idx + 1
            /\ spc' = "loop"
       ELSE /\ idx' = idx
            /\ spc' = "raised"
    /\ UNCHANGED <<impl, provider, chunks, written, chat_vars, eval_vars>>

\* An exception inside process_and_store_chunk(chunks[idx]).  knowlang:
\* except Exception -> LOG.error, continue.  know_lang_bot: no handler, the
\* exception leaves process_chunks.
chunk_raises ==
    /\ errored' = errored \cup {idx}
    /\ summary' = None
    /\ IF impl = "knowlang"
       THEN /\ idx' = idx + 1
            /\ spc' = "loop"
       ELSE /\ idx' = idx
            /\ spc' = "raised"
    /\ UNCHANGED <<impl, provider, chunks, vector_store, written, chat_vars,
                   eval_vars>>

\* summary = await self.summarize_chunk(chunk): the agent answers.
summarize_chunk ==
    /\ spc = "loop"
    /\ idx <= Len(chunks)
    /\ \E data \in AgentOutputs :
          summary' = summarize_result(impl, chunks[idx], data)
    /\ spc' = "summarized"
    /\ UNCHANGED <<impl, provider, chunks, idx, vector_store, errored,
                   written, chat_vars, eval_vars>>

\* ... or the agent call fails.
summarize_chunk_raises ==
    /\ spc = "loop"
    /\ idx <= Len(chunks)
    /\ chunk_raises

\* embedding = _get_embedding(summary) / generate_embedding(summary, config)
get_embedding ==
    /\ spc = "summarized"
    /\ provider = "ollama"
    /\ spc' = "embedded"
    /\ UNCHANGED <<impl, provider, chunks, idx, summary, vector_store,
                   errored, written, chat_vars, eval_vars>>

\* ... raises: unsupported provider (ValueError), or the call fails.
get_embedding_raises ==
    /\ spc = "summarized"
    /\ chunk_raises

\* self.collection.add(...) / await self.vector_store.add_documents(...)
store_chunk ==
    /\ spc = "embedded"
    /\ vector_store' =
          add_documents(vector_store, stored_record(impl, chunks[idx], summary))
    /\ written' = Append(written, idx)
    /\ spc' = "stored"
    /\ UNCHANGED <<impl, provider, chunks, idx, summary, errored,
                   chat_vars, eval_vars>>

\* A slip: the loop passes over the chunk after the one it stored.
next_chunk_skips_one ==
    /\ spc = "stored"
    /\ idx' = idx + 2
    /\ spc' = "loop"
    /\ summary' = None
    /\ UNCHANGED <<impl, provider, chunks, vector_store, errored, written,
                   chat_vars, eval_vars>>

\* progress.advance(task); the for loop takes the next chunk.
next_chunk ==
    /\ spc = "stored"
    /\ idx' = idx + 1
    /\ spc' = "loop"
    /\ summary' = None
    /\ UNCHANGED <<impl, provider, chunks, vector_store, errored, written,
                   chat_vars, eval_vars>>

\* The for loop is exhausted: process_chunks returns.
process_chunks_returns ==
    /\ spc = "loop"
    /\ idx > Len(chunks)
    /\ spc' = "returned"
    /\ UNCHANGED <<impl, provider, chunks, idx, summary, vector_store,
                   errored, written, chat_vars, eval_vars>>

SumNext ==
    \/ \E cs \in SeqsUpTo(ChunkSet, MaxChunks) : process_chunks(cs)
    \/ summarize_chunk
    \/ summarize_chunk_raises
    \/ get_embedding
    \/ get_embedding_raises
    \/ store_chunk
    \/ next_chunk
    \/ process_chunks_returns

SumSpec == SumInit /\ [][SumNext]_vars

(***************************************************************************)
(* Claims about CodeSummarizer.                                            *)
(***************************************************************************)
\* "{file_path}:{start_line}-{end_line}" as the claims write it.
expected_id(chunk) ==
    chunk.file_path \o ":" \o ToString(chunk.start_line) \o "-"
        \o ToString(chunk.end_line)

records_with_id(id) == {k \in 1..Len(vector_store) : vector_store[k].id = id}

records_at(chunk) ==
    {k \in 1..Len(vector_store) :
        /\ vector_store[k].metadata.file_path = chunk.file_path
        /\ vector_store[k].metadata.start_line = chunk.start_line
        /\ vector_store[k].metadata.end_line = chunk.end_line}

\* C1: when process_chunks has ended and exactly one chunk of its list
\* raised, the call returned (did not raise) and every other chunk of the
\* list, before and after the failing one, has a stored record.
C1_OneFailureIsSkipped ==
    (spc \in {"returned", "raised"} /\ Cardinality(errored) = 1) =>
        /\ spc = "returned"
        /\ \A i \in (1..Len(chunks)) \ errored :
              records_with_id(expected_id(chunks[i])) # {}

\* C2: right after process_and_store_chunk has stored a chunk, the store
\* holds exactly one record with id "{file_path}:{start_line}-{end_line}"
\* of that chunk; its document is the summary and its metadata carries the
\* chunk's file_path and line range.
C2_OneRecordWithLocationId ==
    (spc = "stored" /\ chunks[idx].content # "") =>
        LET chunk == chunks[idx]
            recs  == records_with_id(expected_id(chunk))
        IN  /\ Cardinality(recs) = 1
            /\ \A k \in recs :
                  /\ vector_store[k].document = summary
                  /\ vector_store[k].metadata.file_path = chunk.file_path
                  /\ vector_store[k].metadata.start_line = chunk.start_line
                  /\ vector_store[k].metadata.end_line = chunk.end_line

\* C2's case: a second chunk has just been stored beside a first.
C2_Witness ==
    /\ spc = "stored"
    /\ Len(vector_store) = 2
    /\ idx = 2

\* C3: whatever was processed, and however often, the store holds at most
\* one record per chunk (per location) and no two records share an id.
C3_OneRecordPerChunk ==
    /\ \A chunk \in ChunkSet : Cardinality(records_at(chunk)) <= 1
    /\ \A j, k \in 1..Len(vector_store) :
          vector_store[j].id = vector_store[k].id => j = k

\* C3's case: the same chunk stored a second time in one run, with a
\* summary that differs from the one stored first.
C3_Witness ==
    /\ spc = "stored"
    /\ idx = 2
    /\ chunks[1] = chunks[2]
    /\ errored = {}
    /\ Len(vector_store) = 1
    /\ summary = summarize_result(impl, chunks[2], "other summary")

\* The positions of the list whose processing has ended, stored or failed.
settled == {written[k] : k \in 1..Len(written)} \cup errored

C13_FailureLeavesStoreUnchanged ==
    [][ /\ (errored' # errored /\ errored' # {}) =>
              vector_store' = vector_store
        /\ vector_store' # vector_store =>
              (spc = "embedded" /\ spc' = "stored") ]_vars

\* C13's case: a chunk that has a record from an earlier call has failed:
\* the record is there, with the summary it was stored with.
C13_Witness ==
    /\ errored # {}
    /\ \E i \in errored :
          \E k \in records_with_id(expected_id(chunks[i])) :
              vector_store[k].document \in
                  {summarize_result(impl, chunks[i], d) : d \in AgentOutputs}

(***************************************************************************)
(*                 CodeQAChatInterface.stream_response                     *)
(*                                                                         *)
(* stream_chat_progress (knowlang.chat_bot.chat_graph) is the producer of  *)
(* the items; it is modelled from its contract: RETRIEVING -> ANSWERING -> *)
(* COMPLETE, with ERROR reachable from every state and terminal.           *)
(***************************************************************************)
SumIdle ==
    /\ impl = "knowlang" /\ provider = "ollama" /\ chunks = <<>>
    /\ idx = 0 /\ spc = "idle" /\ summary = None /\ vector_store = <<>>
    /\ errored = {} /\ written = <<>>

Questions == {"q1", "q2"}
Answers == {"the answer"}
ErrorTexts == {"embedding failed"}

\* ChatMessage(role, content, metadata={"title", "status"}); a message
\* without metadata has title "" and status "".
ChatMessage(role, content, title, status) ==
    [role |-> role, content |-> content, title |-> title, status |-> status]

\* Retrieved contexts: none; one without documents; one whose metadata has
\* the keys CodeContext.from_metadata reads; one that lacks 'file_path'.
GoodMetadata == [file_path |-> "a.py", start_line |-> 1, end_line |-> 10]
BadMetadata  == [start_line |-> 1, end_line |-> 10]
Contexts ==
    { Nothing,
      [chunks |-> <<>>, metadatas |-> <<>>],
      [chunks |-> <<"def f(): pass">>, metadatas |-> <<GoodMetadata>>],
      [chunks |-> <<"def f(): pass">>, metadatas |-> <<BadMetadata>>] }

\* StreamingChatResult
ChatItem(status, progress_message, answer, retrieved_context) ==
    [status |-> status, progress_message |-> progress_message,
     answer |-> answer, retrieved_context |-> retrieved_context]

\* ChatStatus.value.title()
status_title(status) ==
    CASE status = "retrieving" -> "Retrieving"
      [] status = "answering"  -> "Answering"
      [] status = "complete"   -> "Complete"
      [] status = "error"      -> "Error"

\* history.remove(x): removes the first element equal to x.
RECURSIVE remove(_, _)
remove(h, x) ==
    IF h = <<>> THEN <<>>
    ELSE IF Head(h) = x THEN Tail(h)
    ELSE <<Head(h)>> \o remove(Tail(h), x)

\* CodeContext.from_metadata reads these keys; a missing one is a KeyError.
metadata_ok(metadata) ==
    {"file_path", "start_line", "end_line"} \subseteq DOMAIN metadata

\* CodeContext.to_title
to_title(metadata) ==
    metadata.file_path \o " (lines " \o ToString(metadata.start_line) \o "-"
        \o ToString(metadata.end_line) \o ")"

\* _format_code_block
format_code_block(code, metadata) ==
    "<details><summary>" \o to_title(metadata) \o "</summary>" \o code
        \o "</details>"

\* zip(chunks, metadatas), each pair formatted, joined by two newlines.
RECURSIVE join_code_blocks(_, _)
join_code_blocks(cs, ms) ==
    IF cs = <<>> \/ ms = <<>> THEN ""
    ELSE format_code_block(Head(cs), Head(ms))
         \o (IF Len(cs) > 1 /\ Len(ms) > 1 THEN "\n\n" ELSE "")
         \o join_code_blocks(Tail(cs), Tail(ms))

\* A slip in the test of line 85: only the two pending states are progress.
is_progress_pending_only(item) == item.status \in {"retrieving", "answering"}

\* if result.status != ChatStatus.COMPLETE
is_progress(item) == item.status # "complete"

\* A slip in the test of line 107: the metadatas are not looked at.
has_code_blocks_ignores_metadatas(item) ==
    /\ ~code_blocks_added
    /\ item.retrieved_context # Nothing

\* not code_blocks_added and result.retrieved_context and
\* result.retrieved_context.metadatas
has_code_blocks(item) ==
    /\ ~code_blocks_added
    /\ item.retrieved_context # Nothing
    /\ item.retrieved_context.metadatas # <<>>

\* The pairs zip yields all format without a KeyError.
code_blocks_format(item) ==
    LET ctx == item.retrieved_context
    IN  \A k \in 1..Len(ctx.metadatas) :
            k <= Len(ctx.chunks) => metadata_ok(ctx.metadatas[k])

\* A slip: the previous progress message is left in the history.
without_progress_keeps(h) == h

\* if current_progress: history.remove(current_progress)
without_progress(h) ==
    IF current_progress # Nothing THEN remove(h, current_progress) ELSE h

\* stream_response(message, history, request) is called: the user message
\* is appended and the history yielded; the async for then asks for the
\* first item.
stream_response(message) ==
    /\ cpc \in {"idle", "finished"}
    /\ queries < MaxQueries
    /\ queries' = queries + 1
    /\ history' = Append(history, ChatMessage("user", message, "", ""))
    /\ shown' = history'
    /\ qstart' = Len(history) + 1
    /\ current_progress' = Nothing
    /\ code_blocks_added' = FALSE
    /\ result' = Nothing
    /\ items' = <<>>
    /\ gpc' = "start"
    /\ cpc' = "iterating"
    /\ UNCHANGED <<sum_vars, eval_vars>>

\* stream_chat_progress produces `item` and moves to `next`.
emit(item, next) ==
    /\ cpc = "iterating"
    /\ result = Nothing
    /\ result' = item
    /\ items' = Append(items, item)
    /\ gpc' = next
    /\ UNCHANGED <<history, shown, cpc, current_progress, code_blocks_added,
                   qstart, queries, sum_vars, eval_vars>>

\* A slip: the ERROR item does not end the sequence.
chat_error_goes_on ==
    /\ gpc \in {"start", "retrieving", "answering"}
    /\ \E e \in ErrorTexts : emit(ChatItem("error", e, None, Nothing), gpc)

chat_retrieving ==
    /\ gpc = "start"
    /\ emit(ChatItem("retrieving", "Searching the codebase", None, Nothing),
            "retrieving")

chat_answering ==
    /\ gpc = "retrieving"
    /\ emit(ChatItem("answering", "Generating the answer", None, Nothing),
            "answering")

chat_complete ==
    /\ gpc = "answering"
    /\ \E a \in Answers, ctx \in Contexts :
          emit(ChatItem("complete", None, a, ctx), "done")

\* A step (embedding, query, generation) fails: the ERROR item, the last.
chat_error ==
    /\ gpc \in {"start", "retrieving", "answering"}
    /\ \E e \in ErrorTexts : emit(ChatItem("error", e, None, Nothing), "done")

\* Lines 85-99: a progress update replaces the progress message.
show_progress ==
    /\ cpc = "iterating"
    /\ result # Nothing
    /\ is_progress(result)
    /\ LET msg == ChatMessage("assistant", result.progress_message,
                              status_title(result.status) \o " Progress",
                              IF result.status # "error" THEN "pending"
                              ELSE "error")
       IN  /\ current_progress' = msg
           /\ history' = Append(without_progress(history), msg)
    /\ shown' = history'
    /\ result' = Nothing
    /\ UNCHANGED <<cpc, code_blocks_added, items, gpc, qstart, queries,
                   sum_vars, eval_vars>>

\* Lines 101-123: the progress message is removed and the code blocks are
\* appended and yielded.
add_code_context ==
    /\ cpc = "iterating"
    /\ result # Nothing
    /\ ~is_progress(result)
    /\ has_code_blocks(result)
    /\ code_blocks_format(result)
    /\ history' = Append(without_progress(history),
                    ChatMessage("assistant",
                        join_code_blocks(result.retrieved_context.chunks,
                                         result.retrieved_context.metadatas),
                        "Code Context", ""))
    /\ shown' = history'
    /\ current_progress' = Nothing
    /\ code_blocks_added' = TRUE
    /\ cpc' = "context_yielded"
    /\ UNCHANGED <<result, items, gpc, qstart, queries, sum_vars, eval_vars>>

\* A slip in the handler: the exception is not turned into a message.
handle_exception_reraise(h, e) ==
    /\ history' = h
    /\ UNCHANGED shown
    /\ cpc' = "raised"

\* Lines 131-141: except Exception: the error message is appended and
\* yielded, and stream_response ends.
handle_exception(h, e) ==
    /\ history' = Append(h, ChatMessage("assistant",
            "An error occurred while processing your request: " \o e,
            "Error", "error"))
    /\ shown' = history'
    /\ cpc' = "finished"

\* Lines 101-110 when _format_code_block raises KeyError: the progress
\* message is already removed; the handler of line 131 takes over.
format_code_block_raises ==
    /\ cpc = "iterating"
    /\ result # Nothing
    /\ ~is_progress(result)
    /\ has_code_blocks(result)
    /\ ~code_blocks_format(result)
    /\ handle_exception(without_progress(history), "'file_path'")
    /\ current_progress' = Nothing
    /\ UNCHANGED <<code_blocks_added, result, items, gpc, qstart, queries,
                   sum_vars, eval_vars>>

\* Lines 125-130: the final answer is appended and yielded; the loop asks
\* for the next item.  Reached after the code blocks, or at once when there
\* are none to add (the progress message is then removed in this step).
add_final_answer ==
    /\ result # Nothing
    /\ \/ cpc = "context_yielded"
       \/ /\ cpc = "iterating"
          /\ ~is_progress(result)
          /\ ~has_code_blocks(result)
    /\ history' = Append(without_progress(history),
                         ChatMessage("assistant", result.answer, "", ""))
    /\ shown' = history'
    /\ current_progress' = Nothing
    /\ result' = Nothing
    /\ cpc' = "iterating"
    /\ UNCHANGED <<code_blocks_added, items, gpc, qstart, queries,
                   sum_vars, eval_vars>>

\* stream_chat_progress is exhausted: the async for and stream_response end.
stream_response_returns ==
    /\ cpc = "iterating"
    /\ result = Nothing
    /\ gpc = "done"
    /\ cpc' = "finished"
    /\ UNCHANGED <<history, shown, current_progress, code_blocks_added,
                   result, items, gpc, qstart, queries, sum_vars, eval_vars>>

ChatInit ==
    /\ SumIdle
    /\ ChatIdle
    /\ EvalIdle

ChatNext ==
    \/ \E message \in Questions : stream_response(message)
    \/ chat_retrieving
    \/ chat_answering
    \/ chat_complete
    \/ chat_error
    \/ show_progress
    \/ add_code_context
    \/ format_code_block_raises
    \/ add_final_answer
    \/ stream_response_returns

ChatSpec == ChatInit /\ [][ChatNext]_vars

(***************************************************************************)
(* Claims about the chat pipeline and stream_response.                     *)
(***************************************************************************)
is_terminal(item) == item.status \in {"complete", "error"}

\* The messages stream_response added to the history for the current query,
\* after the user's message.
query_messages == SubSeq(history, qstart + 1, Len(history))

is_final_answer(m) == m.role = "assistant" /\ m.title = "" /\ m.status = ""
is_code_context(m) == m.role = "assistant" /\ m.title = "Code Context"

\* C4: the items of one query: no status occurs twice (so the sequence is
\* finite), a COMPLETE or ERROR item is followed by no item (so there is at
\* most one terminal item, never both), and once the sequence has ended it
\* is non-empty and its last item is terminal.
C4_OneTerminalItemLast ==
    /\ \A i, j \in 1..Len(items) :
          items[i].status = items[j].status => i = j
    /\ \A i \in 1..Len(items) : is_terminal(items[i]) => i = Len(items)
    /\ gpc = "done" =>
          /\ items # <<>>
          /\ is_terminal(items[Len(items)])

\* C4's case: a sequence RETRIEVING, ANSWERING, COMPLETE that has ended.
C4_Witness ==
    /\ gpc = "done"
    /\ Len(items) = 3
    /\ items[3].status = "complete"

\* C7: an ERROR item carries an explanatory progress message and no answer
\* and is the last item; while it is the query's last item the history of
\* that query holds no final-answer message and no code-context message,
\* and once stream_response has handled it the query's last message is the
\* progress message with status "error" and the item's text.
C7_ErrorEndsWithoutAnswer ==
    \A i \in 1..Len(items) :
        items[i].status = "error" =>
            /\ i = Len(items)
            /\ items[i].progress_message \in ErrorTexts
            /\ items[i].answer = None
            /\ \A k \in 1..Len(query_messages) :
                  /\ ~is_final_answer(query_messages[k])
                  /\ ~is_code_context(query_messages[k])
            /\ result = Nothing =>
                  /\ history[Len(history)].status = "error"
                  /\ history[Len(history)].content = items[i].progress_message
                  /\ shown = history

\* C7's case: a query whose generation step failed, after RETRIEVING and
\* ANSWERING were shown, and whose stream_response has ended.
C7_Witness ==
    /\ cpc = "finished"
    /\ Len(items) = 3
    /\ items[3].status = "error"

\* C8: no exception leaves stream_response, and when it has ended the last
\* yielded history is the history, and its last message is the final answer
\* of the COMPLETE item or an assistant message with status "error"; it is
\* never a pending progress message.
C8_EndsWithAnswerOrError ==
    /\ cpc # "raised"
    /\ cpc = "finished" =>
          LET last == shown[Len(shown)]
          IN  /\ shown = history
              /\ Len(shown) > qstart
              /\ last.role = "assistant"
              /\ last.status # "pending"
              /\ \/ /\ is_final_answer(last)
                    /\ items[Len(items)].status = "complete"
                    /\ last.content = items[Len(items)].answer
                 \/ last.status = "error"

\* C8's case: _format_code_block raised on the COMPLETE item and the
\* handler at the boundary turned the exception into the last message.
C8_Witness ==
    /\ cpc = "finished"
    /\ items # <<>>
    /\ items[Len(items)].status = "complete"
    /\ shown[Len(shown)].title = "Error"
    /\ shown[Len(shown)].status = "error"

\* The progress messages of lines 89-98.
is_progress_message(m) ==
    /\ m.role = "assistant"
    /\ m.title \in {status_title(st) \o " Progress" :
                        st \in {"retrieving", "answering", "error"}}

progress_positions ==
    {k \in 1..Len(query_messages) : is_progress_message(query_messages[k])}

code_context_positions ==
    {k \in 1..Len(query_messages) : is_code_context(query_messages[k])}

\* The last item of the query, once stream_response has taken it up.
last_item_handled(status) ==
    /\ items # <<>>
    /\ items[Len(items)].status = status
    /\ result = Nothing \/ cpc \in {"context_yielded", "finished"}

\* C14: the history holds at most one progress message of the current query
\* at any time; while there is one it is current_progress, the query's last
\* message, and it shows the last item handled (it replaced the one before);
\* once the COMPLETE item is handled the history holds no progress message
\* of the query.
C14_AtMostOneProgressMessage ==
    /\ Cardinality(progress_positions) <= 1
    /\ \A k \in progress_positions :
          /\ k = Len(query_messages)
          /\ query_messages[k] = current_progress
    /\ current_progress # Nothing => progress_positions # {}
    /\ \A st \in {"retrieving", "answering", "error"} :
          last_item_handled(st) =>
              /\ progress_positions # {}
              /\ current_progress.content = items[Len(items)].progress_message
              /\ current_progress.title = status_title(st) \o " Progress"
    /\ last_item_handled("complete") => progress_positions = {}

\* C14's case: RETRIEVING and ANSWERING were shown, one replacing the other,
\* and the COMPLETE item has been handled: the final answer is the query's
\* only message.
C14_Witness ==
    /\ Len(items) = 3
    /\ last_item_handled("complete")
    /\ Len(query_messages) = 1
    /\ is_final_answer(query_messages[1])

\* C15: the history holds at most one code-context message of the current
\* query, and only when the query's last item is COMPLETE with a retrieved
\* context that has metadatas; it stands before the final answer; the
\* query's messages start with the user's message, which has been yielded,
\* and every message after it is an assistant message.
C15_CodeContextOnceBeforeAnswer ==
    /\ Cardinality(code_context_positions) <= 1
    /\ \A k \in code_context_positions :
          /\ code_blocks_added
          /\ items # <<>>
          /\ items[Len(items)].status = "complete"
          /\ items[Len(items)].retrieved_context # Nothing
          /\ items[Len(items)].retrieved_context.metadatas # <<>>
    /\ \A j \in 1..Len(query_messages) :
          is_final_answer(query_messages[j]) =>
              \A k \in code_context_positions : k < j
    /\ cpc # "idle" =>
          /\ qstart \in 1..Len(history)
          /\ history[qstart].role = "user"
          /\ Len(shown) >= qstart
          /\ shown[qstart] = history[qstart]
          /\ \A k \in 1..Len(query_messages) :
                query_messages[k].role = "assistant"

\* C15's case: a query that ended with the code context and, after it, the
\* final answer.
C15_Witness ==
    /\ cpc = "finished"
    /\ Len(query_messages) = 2
    /\ is_code_context(query_messages[1])
    /\ is_final_answer(query_messages[2])
    /\ shown = history

(***************************************************************************)
(*                          ChatBotEvaluator                               *)
(***************************************************************************)
\* EvalCase: difficulty: int = Field(ge=1, le=3).  Two cases: the difficulty
\* changes no step of evaluate_batch.
CaseSet ==
    { [kind |-> "BaseModel", question |-> "q1", difficulty |-> 2],
      [kind |-> "BaseModel", question |-> "q2", difficulty |-> 3] }

\* What process_chat_func may return: a ChatResult (a pydantic model).
ChatResults == { [kind |-> "BaseModel", answer |-> "the answer"] }

\* EvalAgentResponse, the judge's result.data; scores in tenths.
JudgeResponses ==
    { [kind |-> "BaseModel", chunk_relevance |-> 0, answer_correctness |-> 0,
       code_reference |-> 0, feedback |-> "feedback"],
      [kind |-> "BaseModel", chunk_relevance |-> 10, answer_correctness |-> 5,
       code_reference |-> 0, feedback |-> "feedback"],
      [kind |-> "BaseModel", chunk_relevance |-> 10, answer_correctness |-> 10,
       code_reference |-> 10, feedback |-> "feedback"] }

EvalMetric == {"chunk_relevance", "answer_correctness", "code_reference"}

\* weights, in tenths: 0.4, 0.4, 0.2
weights ==
    [chunk_relevance |-> 4, answer_correctness |-> 4, code_reference |-> 2]

RECURSIVE sum_over(_, _)
sum_over(S, f) ==
    IF S = {} THEN 0
    ELSE LET x == CHOOSE y \in S : TRUE
         IN  f[x] + sum_over(S \ {x}, f)

\* sum(metrics[metric] * weights[metric] * case.difficulty
\*     for metric in EvalMetric), in hundredths.
total_score(metrics, difficulty) ==
    sum_over(EvalMetric,
             [m \in EvalMetric |-> metrics[m] * weights[m] * difficulty])

\* ChatBotEvaluationContext(**case.model_dump(), **chat_result.model_dump())
ChatBotEvaluationContext(case, chat_result) ==
    [kind |-> "BaseModel", question |-> case.question,
     difficulty |-> case.difficulty, answer |-> chat_result.answer]

\* json.dumps(obj) serializes dicts, lists, texts and numbers; for any other
\* object, a pydantic model among them, it raises TypeError.
json_dumps_raises(obj) == obj.kind \notin {"dict", "list", "str", "number"}

\* obj[key] needs __getitem__; a pydantic model has none (TypeError).
subscript_raises(obj) == obj.kind \notin {"dict", "list", "str"}

Raised(error, where) == [raised |-> TRUE, error |-> error, in |-> where]
Returned(value) == [raised |-> FALSE, value |-> value]

\* evaluate_single(case, chat_result), the judge answering `response`:
\* what it returns or raises.  json.dumps(eval_context) is evaluated before
\* the judge is called; metrics[metric] subscripts the judge's result.
evaluate_single(case, chat_result, response) ==
    IF json_dumps_raises(ChatBotEvaluationContext(case, chat_result))
    THEN Raised("TypeError", "evaluate_single")
    ELSE IF subscript_raises(response)
    THEN Raised("TypeError", "evaluate_single")
    ELSE Returned([case |-> case,
                   metrics |-> response,
                   total_score |-> total_score(response, case.difficulty),
                   feedback |-> response.feedback])

\* The tasks inside async with semaphore: from the call of process_chat_func
\* to the end of evaluate_single (which, as chat_returns shows, ends in the
\* step in which process_chat_func returns).
in_flight == {t \in 1..Len(tpc) : tpc[t] = "chatting"}
\* The tasks in the semaphore's queue.
waiting == {t \in 1..Len(tpc) : tpc[t] = "waiting"}

EvalInit ==
    /\ SumIdle
    /\ ChatIdle
    /\ EvalIdle

\* evaluate_batch(cases, process_chat_func, max_concurrent) is called: the
\* semaphore is made and gather makes one task per case.
evaluate_batch(cs, mc) ==
    /\ batch = "idle"
    /\ cases' = cs
    /\ max_concurrent' = mc
    /\ semaphore' = mc
    /\ tpc' = [t \in 1..Len(cs) |-> "created"]
    /\ task_result' = [t \in 1..Len(cs) |-> Nothing]
    /\ batch' = "gathering"
    /\ UNCHANGED <<batch_result, sum_vars, chat_vars>>

\* A task of eval_single_with_limit runs for the first time (the tasks start
\* in the order gather made them): async with semaphore takes a slot if one
\* is free and nobody waits, and process_chat_func is called; else the task
\* waits in the semaphore's queue.
task_starts(t) ==
    /\ batch # "idle"
    /\ t \in 1..Len(tpc)
    /\ tpc[t] = "created"
    /\ \A u \in 1..(t - 1) : tpc[u] # "created"
    /\ IF semaphore > 0 /\ waiting = {}
       THEN /\ semaphore' = semaphore - 1
            /\ tpc' = [tpc EXCEPT ![t] = "chatting"]
       ELSE /\ semaphore' = semaphore
            /\ tpc' = [tpc EXCEPT ![t] = "waiting"]
    /\ UNCHANGED <<cases, max_concurrent, task_result, batch, batch_result,
                   sum_vars, chat_vars>>

\* A slip: the slot is taken whether or not one is free.
acquire_unbounded(t) ==
    /\ t \in 1..Len(tpc)
    /\ tpc[t] = "waiting"
    /\ semaphore' = semaphore - 1
    /\ tpc' = [tpc EXCEPT ![t] = "chatting"]
    /\ UNCHANGED <<cases, max_concurrent, task_result, batch, batch_result,
                   sum_vars, chat_vars>>

\* The first waiter gets the freed slot and calls process_chat_func.
acquire(t) ==
    /\ t \in 1..Len(tpc)
    /\ tpc[t] = "waiting"
    /\ \A u \in 1..(t - 1) : tpc[u] # "waiting"
    /\ semaphore > 0
    /\ semaphore' = semaphore - 1
    /\ tpc' = [tpc EXCEPT ![t] = "chatting"]
    /\ UNCHANGED <<cases, max_concurrent, task_result, batch, batch_result,
                   sum_vars, chat_vars>>

\* A slip: acquire and release without try/finally; an exception keeps the
\* slot.
aexit_keeps_slot_on_exception(outcome) ==
    semaphore' = IF outcome.raised THEN semaphore ELSE semaphore + 1

\* async with semaphore, leaving the block: the slot is released, whether
\* the block returned or raised.
aexit(outcome) == semaphore' = semaphore + 1

\* The task ends with `outcome`.
task_ends(t, outcome) ==
    /\ aexit(outcome)
    /\ task_result' = [task_result EXCEPT ![t] = outcome]
    /\ tpc' = [tpc EXCEPT ![t] = IF outcome.raised THEN "failed" ELSE "done"]
    /\ UNCHANGED <<cases, max_concurrent, batch, batch_result, sum_vars,
                   chat_vars>>

\* process_chat_func(case.question) returns; evaluate_single is called with
\* its result and the task ends with what evaluate_single returns or raises.
chat_returns(t) ==
    /\ t \in 1..Len(tpc)
    /\ tpc[t] = "chatting"
    /\ \E chat_result \in ChatResults, response \in JudgeResponses :
          task_ends(t, evaluate_single(cases[t], chat_result, response))

\* process_chat_func(case.question) raises.
chat_raises(t) ==
    /\ t \in 1..Len(tpc)
    /\ tpc[t] = "chatting"
    /\ task_ends(t, Raised("ChatError", "process_chat_func"))

\* A slip: gather(..., return_exceptions=True): the exceptions are returned
\* among the results.
gather_returns_exceptions ==
    /\ batch = "gathering"
    /\ \A t \in 1..Len(tpc) : tpc[t] \in {"done", "failed"}
    /\ batch' = "returned"
    /\ batch_result' = [results |-> task_result]
    /\ UNCHANGED <<cases, max_concurrent, semaphore, tpc, task_result,
                   sum_vars, chat_vars>>

\* asyncio.gather: the first exception of a task is raised to evaluate_batch,
\* which raises it; the other tasks are not cancelled.
gather_raises ==
    /\ batch = "gathering"
    /\ \E t \in 1..Len(tpc) : tpc[t] = "failed"
    /\ batch' = "raised"
    /\ UNCHANGED <<cases, max_concurrent, semaphore, tpc, task_result,
                   batch_result, sum_vars, chat_vars>>

\* asyncio.gather: every task returned; the list of their results, in the
\* order of the cases, is returned.
gather_returns ==
    /\ batch = "gathering"
    /\ \A t \in 1..Len(tpc) : tpc[t] = "done"
    /\ batch' = "returned"
    /\ batch_result' =
          [results |-> [t \in 1..Len(tpc) |-> task_result[t].value]]
    /\ UNCHANGED <<cases, max_concurrent, semaphore, tpc, task_result,
                   sum_vars, chat_vars>>

EvalNext ==
    \/ \E cs \in SeqsUpTo(CaseSet, MaxCases), mc \in 0..MaxConcurrent :
          evaluate_batch(cs, mc)
    \/ \E t \in 1..MaxCases : task_starts(t)
    \/ \E t \in 1..MaxCases : acquire(t)
    \/ \E t \in 1..MaxCases : chat_returns(t)
    \/ \E t \in 1..MaxCases : chat_raises(t)
    \/ gather_raises
    \/ gather_returns

EvalSpec == EvalInit /\ [][EvalNext]_vars

\* The event loop runs every task that can run, process_chat_func returns
\* or raises in the end, and gather is woken by a task's exception.
EvalFairSpec ==
    /\ EvalSpec
    /\ \A t \in 1..MaxCases :
          /\ WF_vars(task_starts(t))
          /\ WF_vars(acquire(t))
          /\ WF_vars(chat_returns(t) \/ chat_raises(t))
    /\ WF_vars(gather_raises)
    /\ WF_vars(gather_returns)

(***************************************************************************)
(* Claims about ChatBotEvaluator.                                          *)
(***************************************************************************)
failed_tasks == {t \in 1..Len(tpc) : tpc[t] = "failed"}

\* Task t exists and stands at one of the places S.
task_at(t, S) == IF t \in 1..Len(tpc) THEN tpc[t] \in S ELSE FALSE

\* C5: at every moment of evaluate_batch the number of cases in flight
\* (process_chat_func started, evaluate_single not finished) is at most
\* max_concurrent; with max_concurrent = 1 it is at most one.
C5_InFlightAtMostMaxConcurrent ==
    /\ Cardinality(in_flight) <= max_concurrent
    /\ max_concurrent = 1 => Cardinality(in_flight) <= 1

\* C5's case: more cases than slots: the cap is reached while a case waits.
C5_Witness ==
    /\ max_concurrent = 1
    /\ Len(cases) = 3
    /\ Cardinality(in_flight) = 1
    /\ waiting # {}

\* C6: whenever evaluate_single has been applied to a case and a chat
\* result, it returned an EvalResult whose total_score (in hundredths) is
\* difficulty * (40*chunk_relevance + 40*answer_correctness
\* + 20*code_reference) / 10 of the judge's scores (in tenths): 200 for
\* scores 10, 10, 10 and difficulty 2, and 0 for scores 0, 0, 0.
C6_TotalScoreIsWeightedSum ==
    \A t \in 1..Len(task_result) :
        (task_result[t] # Nothing /\ task_result[t].in # "process_chat_func")
        =>  /\ ~task_result[t].raised
            /\ LET r == task_result[t].value
               IN  /\ r.total_score =
                         cases[t].difficulty *
                            ( 4 * r.metrics.chunk_relevance
                            + 4 * r.metrics.answer_correctness
                            + 2 * r.metrics.code_reference )
                   /\ (/\ r.metrics.chunk_relevance = 10
                       /\ r.metrics.answer_correctness = 10
                       /\ r.metrics.code_reference = 10
                       /\ cases[t].difficulty = 2) => r.total_score = 200
                   /\ (/\ r.metrics.chunk_relevance = 0
                       /\ r.metrics.answer_correctness = 0
                       /\ r.metrics.code_reference = 0) => r.total_score = 0

\* C9: a case that failed holds no slot (the free slots and the cases in
\* flight always add up to max_concurrent), and, with max_concurrent >= 1,
\* once a case has failed every case that has not yet got a slot gets one
\* and makes its own chat-processing call.
C9_FailureReleasesSlot ==
    /\ [](batch # "idle" =>
            semaphore + Cardinality(in_flight) = max_concurrent)
    /\ \A t \in 1..MaxCases :
          (/\ failed_tasks # {}
           /\ max_concurrent >= 1
           /\ task_at(t, {"created", "waiting"}))
          ~> task_at(t, {"chatting", "done", "failed"})

\* C9's case: one slot; a case failed and a later case holds the slot.
C9_Witness ==
    /\ max_concurrent = 1
    /\ \E t, u \in 1..Len(tpc) :
          /\ t < u
          /\ tpc[t] = "failed"
          /\ tpc[u] = "chatting"

\* C10: evaluate_batch returns a list only when no case raised; once a case
\* has raised, evaluate_batch raises and has no list of results, whatever
\* the other cases did.
C10_OneFailureFailsTheBatch ==
    /\ [](batch = "returned" =>
            /\ failed_tasks = {}
            /\ Len(batch_result.results) = Len(cases))
    /\ [](batch = "raised" => failed_tasks # {} /\ batch_result = Nothing)
    /\ (failed_tasks # {}) ~> (batch = "raised")

\* C10's case: evaluate_batch has raised for the chat-processing call of one
\* case, while another case is still in flight.
C10_Witness ==
    /\ batch = "raised"
    /\ batch_result = Nothing
    /\ \E t, u \in 1..Len(tpc) :
          /\ task_result[t] # Nothing
          /\ task_result[t].in = "process_chat_func"
          /\ tpc[u] = "chatting"

\* No call of process_chat_func has raised.
every_chat_call_returned ==
    \A t \in 1..Len(task_result) :
        task_result[t] = Nothing \/ task_result[t].in # "process_chat_func"

\* C12: with max_concurrent >= 1 and every chat-processing and judge call
\* returning, every case that gets a slot finishes with a result, so
\* evaluate_batch does not raise and what it returns is one result per case,
\* in the order of the cases.
C12_BatchReturnsOneResultPerCase ==
    (max_concurrent >= 1 /\ every_chat_call_returned) =>
        /\ failed_tasks = {}
        /\ batch # "raised"
        /\ batch = "returned" =>
              /\ Len(batch_result.results) = Len(cases)
              /\ \A t \in 1..Len(cases) :
                    batch_result.results[t].case = cases[t]

=============================================================================
